---- MODULE Spec2Model ----
(***************************************************************************)
(* Browser compatibility gate of detection-browser                         *)
(* (src/src/app/service/browser-compatibility.module.ts).                  *)
(*                                                                         *)
(* Strings that the code parses character by character (version strings    *)
(* and version constraints) are sequences of one-character strings.        *)
(* The user agent is a sequence of product/version tokens, a URL is a      *)
(* record of path, query parameters and fragment.                          *)
(***************************************************************************)
EXTENDS Integers, Sequences, FiniteSets, TLC

VARIABLES href, userAgent, userAgentData, config, pc, trace, browserInfo,
          loads, prevNav, cmpIn, cmpOut

vars == <<href, userAgent, userAgentData, config, pc, trace, browserInfo,
          loads, prevNav, cmpIn, cmpOut>>

\* ------------------------------------------------------------------ bounds
MaxComp == 2      \* largest version component drawn for compareVersions
MaxVerLen == 3    \* longest version array drawn for compareVersions
MaxBrands == 2    \* longest structured-hints brand list
MaxParams == 1    \* most query parameters on the first URL of a chain
MaxLoads == 3     \* page loads followed in one chain of navigations

\* ------------------------------------------------------- character strings
Digits == <<"0", "1", "2", "3", "4", "5", "6", "7", "8", "9">>

IsDigit(c) == \E i \in 1..10 : Digits[i] = c

DigitVal(c) == (CHOOSE i \in 1..10 : Digits[i] = c) - 1

\* String.prototype.startsWith / endsWith
StartsWith(s, p) == Len(s) >= Len(p) /\ SubSeq(s, 1, Len(p)) = p

EndsWith(s, p) == Len(s) >= Len(p) /\ SubSeq(s, Len(s) - Len(p) + 1, Len(s)) = p

\* String.prototype.substring(n) and slice(0, -1)
Substring(s, n) == SubSeq(s, n + 1, Len(s))

DropLast(s) == SubSeq(s, 1, Len(s) - 1)

\* String.prototype.trim
RECURSIVE TrimLeft(_)
TrimLeft(s) == IF s # <<>> /\ Head(s) = " " THEN TrimLeft(Tail(s)) ELSE s

RECURSIVE TrimRight(_)
TrimRight(s) == IF s # <<>> /\ s[Len(s)] = " " THEN TrimRight(DropLast(s)) ELSE s

Trim(s) == TrimRight(TrimLeft(s))

\* String.prototype.split('.'): the empty string splits into one empty part
RECURSIVE SplitDot(_)
SplitDot(s) ==
  IF \A i \in 1..Len(s) : s[i] # "."
  THEN <<s>>
  ELSE LET k == CHOOSE i \in 1..Len(s) : s[i] = "." /\ \A j \in 1..(i - 1) : s[j] # "."
       IN  <<SubSeq(s, 1, k - 1)>> \o SplitDot(SubSeq(s, k + 1, Len(s)))

\* Array.prototype.join('.')
RECURSIVE JoinDot(_)
JoinDot(parts) ==
  IF parts = <<>> THEN <<>>
  ELSE IF Len(parts) = 1 THEN parts[1]
  ELSE parts[1] \o <<".">> \o JoinDot(Tail(parts))

\* v.replace(/[^\d]/g, '')
RECURSIVE StripNonDigits(_)
StripNonDigits(s) ==
  IF s = <<>> THEN <<>>
  ELSE IF IsDigit(Head(s)) THEN <<Head(s)>> \o StripNonDigits(Tail(s))
  ELSE StripNonDigits(Tail(s))

\* parseInt(digits, 10) followed by isNaN(num) ? 0 : num
RECURSIVE ParseIntOrZero(_)
ParseIntOrZero(ds) ==
  IF ds = <<>> THEN 0
  ELSE 10 * ParseIntOrZero(DropLast(ds)) + DigitVal(ds[Len(ds)])

\* ------------------------------------------------------ version comparator
parseVersion(version) ==
  LET parts == SplitDot(version)
  IN  [i \in 1..Len(parts) |-> ParseIntOrZero(StripNonDigits(parts[i]))]

\* while (a.length < 3) a.push(0)
RECURSIVE PadZero(_)
PadZero(a) == IF Len(a) < 3 THEN PadZero(Append(a, 0)) ELSE a

compareVersions_strictPatch(current, minimum, operator) ==
  LET cur == PadZero(current)
      min == PadZero(minimum)
      geq == IF cur[1] > min[1] THEN TRUE
             ELSE IF cur[1] < min[1] THEN FALSE
             ELSE IF cur[2] > min[2] THEN TRUE
             ELSE IF cur[2] < min[2] THEN FALSE
             ELSE cur[3] > min[3]
  IN  CASE operator = ">=" -> geq
        [] operator = "^" ->
             IF cur[1] # min[1] THEN cur[1] > min[1]
             ELSE IF cur[2] > min[2] THEN TRUE
             ELSE IF cur[2] < min[2] THEN FALSE
             ELSE cur[3] > min[3]
        [] operator = "~" ->
             IF cur[1] # min[1] \/ cur[2] # min[2]
             THEN cur[1] > min[1] \/ (cur[1] = min[1] /\ cur[2] > min[2])
             ELSE cur[3] > min[3]
        [] OTHER -> geq

compareVersions(current, minimum, operator) ==
  LET cur == PadZero(current)
      min == PadZero(minimum)
      geq == IF cur[1] > min[1] THEN TRUE
             ELSE IF cur[1] < min[1] THEN FALSE
             ELSE IF cur[2] > min[2] THEN TRUE
             ELSE IF cur[2] < min[2] THEN FALSE
             ELSE cur[3] >= min[3]
  IN  CASE operator = ">=" -> geq
        [] operator = "^" ->
             IF cur[1] # min[1] THEN cur[1] > min[1]
             ELSE IF cur[2] > min[2] THEN TRUE
             ELSE IF cur[2] < min[2] THEN FALSE
             ELSE cur[3] >= min[3]
        [] operator = "~" ->
             IF cur[1] # min[1] \/ cur[2] # min[2]
             THEN cur[1] > min[1] \/ (cur[1] = min[1] /\ cur[2] > min[2])
             ELSE cur[3] >= min[3]
        [] OTHER -> geq   \* default: compareVersions(current, minimum, '>=')

\* ------------------------------------------------------------- JS values
\* A value read from the host or the configuration: a string (its
\* characters), a number (its decimal digits) or undefined.
Str(chars) == [type |-> "string", chars |-> chars]

Num(chars) == [type |-> "number", chars |-> chars]

Undefined == [type |-> "undefined", chars |-> <<>>]

\* !value is false
Truthy(v) ==
  CASE v.type = "string" -> v.chars # <<>>
    [] v.type = "number" -> StripNonDigits(v.chars) # <<>> /\ ParseIntOrZero(v.chars) # 0
    [] OTHER -> FALSE

\* version.replace / minimumVersion.trim exist on strings only: a call on
\* any other truthy value raises a TypeError
IsString(v) == v.type = "string"

ZeroVersion == <<"0", ".", "0", ".", "0">>

\* while (parts.length < 3) parts.push('0')
RECURSIVE PadParts(_)
PadParts(parts) == IF Len(parts) < 3 THEN PadParts(Append(parts, <<"0">>)) ELSE parts

\* cleanVersion of a value on which it does not throw
cleanVersion(version) ==
  IF ~Truthy(version) THEN ZeroVersion
  ELSE LET cleaned == IF StartsWith(version.chars, <<"v">>)
                      THEN Substring(version.chars, 1) ELSE version.chars
           parts == PadParts(SplitDot(cleaned))
       IN  JoinDot(SubSeq(parts, 1, 3))

cleanVersionThrows(version) == Truthy(version) /\ ~IsString(version)

\* the operator prefix or suffix of a constraint and the text left over
ParseConstraint(minimumVersion) ==
  LET m == Trim(minimumVersion.chars)
  IN  IF StartsWith(m, <<">", "=">>) THEN [operator |-> ">=", rest |-> Trim(Substring(m, 2))]
      ELSE IF StartsWith(m, <<"^">>) THEN [operator |-> "^", rest |-> Trim(Substring(m, 1))]
      ELSE IF StartsWith(m, <<"~">>) THEN [operator |-> "~", rest |-> Trim(Substring(m, 1))]
      ELSE IF EndsWith(m, <<"~">>) THEN [operator |-> "~", rest |-> Trim(DropLast(m))]
      ELSE [operator |-> ">=", rest |-> m]

isVersionSupported_failClosed(currentVersion, minimumVersion) ==
  IF ~Truthy(minimumVersion) THEN TRUE
  ELSE IF cleanVersionThrows(currentVersion) \/ ~IsString(minimumVersion)
  THEN FALSE
  ELSE LET c == ParseConstraint(minimumVersion)
       IN  compareVersions(parseVersion(cleanVersion(currentVersion)),
                           parseVersion(c.rest), c.operator)

isVersionSupported(currentVersion, minimumVersion) ==
  IF ~Truthy(minimumVersion) THEN TRUE
  ELSE IF cleanVersionThrows(currentVersion) \/ ~IsString(minimumVersion)
  THEN TRUE     \* catch (error): return true
  ELSE LET c == ParseConstraint(minimumVersion)
       IN  compareVersions(parseVersion(cleanVersion(currentVersion)),
                           parseVersion(c.rest), c.operator)

\* the try block of isVersionSupported raises an exception
versionComparisonThrows(currentVersion, minimumVersion) ==
  Truthy(minimumVersion) /\ (cleanVersionThrows(currentVersion) \/ ~IsString(minimumVersion))

\* -------------------------------------------------------------- browsers
CHROME == "chrome"
FIREFOX == "firefox"
SAFARI == "safari"
EDGE == "edge"
SAMSUNG == "samsung"
LINE == "line"
UNKNOWN == "unknown"

SupportedBrowser == {CHROME, FIREFOX, SAFARI, EDGE, SAMSUNG, LINE, UNKNOWN}

\* getMinimumVersion returns null
Null == [type |-> "null", chars |-> <<>>]

getMinimumVersion_noSamsung(cfg, browserName) ==
  CASE browserName = CHROME -> cfg.supportedVersions.chrome
    [] browserName = FIREFOX -> cfg.supportedVersions.firefox
    [] browserName = SAFARI -> cfg.supportedVersions.safari
    [] browserName = EDGE -> cfg.supportedVersions.edge
    [] OTHER -> Null

getMinimumVersion(cfg, browserName) ==
  CASE browserName = CHROME -> cfg.supportedVersions.chrome
    [] browserName = FIREFOX -> cfg.supportedVersions.firefox
    [] browserName = SAFARI -> cfg.supportedVersions.safari
    [] browserName = EDGE -> cfg.supportedVersions.edge
    [] browserName = SAMSUNG -> cfg.supportedVersions.samsung
    [] OTHER -> Null

\* ------------------------------------------------------ structured hints
\* navigator.userAgentData: absent, or a list of brand entries.  A brand
\* name is the sequence of its words, a brand version any JS value.
NoHints == [present |-> FALSE, brands |-> <<>>]

Hints(brands) == [present |-> TRUE, brands |-> brands]

LowerWords == [Microsoft |-> "microsoft", Edge |-> "edge", Samsung |-> "samsung",
               Internet |-> "internet", Google |-> "google", Chrome |-> "chrome",
               Chromium |-> "chromium", Firefox |-> "firefox", Brave |-> "brave",
               Not |-> "not", A |-> "a", Brand |-> "brand"]

\* brand.brand.toLowerCase()
ToLowerCase(words) == [i \in 1..Len(words) |-> LowerWords[words[i]]]

\* no word of the vocabulary contains another one as a proper substring
\* ("chromium" does not contain "chrome")
WordIncludes(word, needle) == word = needle

\* brandName.includes(needle), the needle given as its words
BrandIncludes(words, needle) ==
  \E i \in 1..(Len(words) - Len(needle) + 1) :
    \A j \in 1..Len(needle) : WordIncludes(words[i + j - 1], needle[j])

NoBrowser == "none"

\* the if / else-if chain applied to one entry of the brand list
BrandKind(brand) ==
  LET brandName == ToLowerCase(brand.brand)
  IN  IF BrandIncludes(brandName, <<"microsoft", "edge">>) \/ BrandIncludes(brandName, <<"edge">>)
      THEN EDGE
      ELSE IF BrandIncludes(brandName, <<"samsung">>) THEN SAMSUNG
      ELSE IF BrandIncludes(brandName, <<"chrome">>) /\ ~BrandIncludes(brandName, <<"chromium">>)
      THEN CHROME
      ELSE IF BrandIncludes(brandName, <<"firefox">>) THEN FIREFOX
      ELSE NoBrowser

IsChromiumBrand(brand) == BrandIncludes(ToLowerCase(brand.brand), <<"chromium">>)

MinOf(S) == CHOOSE i \in S : \A j \in S : i <= j

NotDetected == [found |-> FALSE, name |-> NoBrowser, version |-> Undefined]

detectBrowserFromClientHints_chromiumIsChrome(uad) ==
  IF uad.present
  THEN LET brands == uad.brands
           hits == {i \in 1..Len(brands) : BrandKind(brands[i]) # NoBrowser}
           chromium == {i \in 1..Len(brands) : IsChromiumBrand(brands[i])}
       IN  IF hits # {}
           THEN [found |-> TRUE, name |-> BrandKind(brands[MinOf(hits)]),
                 version |-> brands[MinOf(hits)].version]
           ELSE IF chromium # {}
           THEN [found |-> TRUE, name |-> CHROME, version |-> brands[MinOf(chromium)].version]
           ELSE NotDetected
  ELSE NotDetected

\* Brand entries are well formed (brand.brand is a string), so the try
\* block does not throw.
detectBrowserFromClientHints(uad) ==
  IF uad.present
  THEN LET brands == uad.brands
           \* for (const brand of brands): the first entry that any branch accepts
           hits == {i \in 1..Len(brands) : BrandKind(brands[i]) # NoBrowser}
           \* brands.find(b => b.brand.toLowerCase().includes('chromium'))
           chromium == {i \in 1..Len(brands) : IsChromiumBrand(brands[i])}
       IN  IF hits # {}
           THEN [found |-> TRUE, name |-> BrandKind(brands[MinOf(hits)]),
                 version |-> brands[MinOf(hits)].version]
           ELSE IF chromium # {}
           THEN [found |-> TRUE, name |-> UNKNOWN, version |-> brands[MinOf(chromium)].version]
           ELSE NotDetected
  ELSE NotDetected

\* ------------------------------------------------------------ user agent
\* The user agent is the sequence of its product tokens "product/version";
\* a token without a version has the empty version.
Tok(product, version) == [product |-> product, version |-> version]

\* substrings among the product names used: "EdgA" (Edge on Android)
\* contains "Edg"
ProductIncludes(product, needle) ==
  product = needle \/ <<product, needle>> \in {<<"EdgA", "Edg">>}

\* userAgent.includes(needle) for a needle without a slash
UaIncludes(ua, needle) == \E i \in 1..Len(ua) : ProductIncludes(ua[i].product, needle)

\* userAgent.includes(needle + '/')
UaIncludesSlash(ua, needle) == \E i \in 1..Len(ua) : ua[i].product = needle

\* length of the longest prefix of digits
RECURSIVE DigitRun(_)
DigitRun(s) == IF s # <<>> /\ IsDigit(Head(s)) THEN 1 + DigitRun(Tail(s)) ELSE 0

\* the text matched by \d+(\.\d+){n-1} at the start of s, <<>> if none
RECURSIVE MatchDotted(_, _)
MatchDotted(s, n) ==
  LET k == DigitRun(s)
  IN  IF k = 0 THEN <<>>
      ELSE IF n = 1 THEN SubSeq(s, 1, k)
      ELSE IF Len(s) > k /\ s[k + 1] = "."
      THEN LET rest == MatchDotted(SubSeq(s, k + 2, Len(s)), n - 1)
           IN  IF rest = <<>> THEN <<>> ELSE SubSeq(s, 1, k + 1) \o rest
      ELSE <<>>

\* userAgent.match(/product\/(\d+(\.\d+){n-1})/): capture group 1 of the
\* first match, <<>> when the match is null
UaMatch(ua, product, n) ==
  LET ok == {i \in 1..Len(ua) : ua[i].product = product /\ MatchDotted(ua[i].version, n) # <<>>}
  IN  IF ok = {} THEN <<>> ELSE MatchDotted(ua[MinOf(ok)].version, n)

\* match ? match[1] : '0.0.0'
PlainVersion(match) == IF match # <<>> THEN match ELSE ZeroVersion

\* customVersionProcessor: match ? match[1] + '.0' : '0.0.0'
customVersionProcessor(match) == IF match # <<>> THEN match \o <<".", "0">> ELSE ZeroVersion

detectBrowser(ua) ==
  IF (UaIncludes(ua, "Chrome") \/ UaIncludes(ua, "Safari"))
     /\ ~UaIncludes(ua, "Edg") /\ ~UaIncludes(ua, "OPR")
     /\ ~UaIncludes(ua, "SamsungBrowser") /\ ~UaIncludes(ua, "Brave")
     /\ UaIncludes(ua, "Line")
  THEN [name |-> LINE, version |-> Str(PlainVersion(UaMatch(ua, "Line", 3)))]
  ELSE IF UaIncludes(ua, "Safari") /\ ~UaIncludes(ua, "Chrome")
  THEN [name |-> SAFARI, version |-> Str(customVersionProcessor(UaMatch(ua, "Version", 2)))]
  ELSE IF UaIncludes(ua, "Chrome")
          /\ ~UaIncludes(ua, "Edg") /\ ~UaIncludes(ua, "OPR")
          /\ ~UaIncludes(ua, "SamsungBrowser") /\ ~UaIncludes(ua, "Brave")
  THEN [name |-> CHROME, version |-> Str(PlainVersion(UaMatch(ua, "Chrome", 3)))]
  ELSE IF UaIncludesSlash(ua, "Edg")
  THEN [name |-> EDGE, version |-> Str(PlainVersion(UaMatch(ua, "Edg", 3)))]
  ELSE IF UaIncludes(ua, "Firefox")
  THEN [name |-> FIREFOX, version |-> Str(customVersionProcessor(UaMatch(ua, "Firefox", 2)))]
  ELSE IF UaIncludes(ua, "SamsungBrowser")
  THEN [name |-> SAMSUNG, version |-> Str(customVersionProcessor(UaMatch(ua, "SamsungBrowser", 2)))]
  ELSE [name |-> UNKNOWN, version |-> Str(ZeroVersion)]

\* the platform of the result is left out: no navigation depends on it
parseUserAgent(ua, uad) ==
  LET clientHintsBrowser == detectBrowserFromClientHints(uad)
  IN  IF clientHintsBrowser.found
      THEN [name |-> clientHintsBrowser.name, version |-> clientHintsBrowser.version]
      ELSE detectBrowser(ua)

\* minimumVersion != null: neither null nor undefined
NotNullish(v) == v.type \notin {"null", "undefined"}

getBrowserCompatibilityInfo(ua, uad, cfg) ==
  LET info == parseUserAgent(ua, uad)
      minimumVersion == getMinimumVersion(cfg, info.name)
      isSupported == IF NotNullish(minimumVersion)
                     THEN isVersionSupported(info.version, minimumVersion)
                     ELSE FALSE
  IN  [name |-> info.name, version |-> info.version,
       isSupported |-> isSupported, minimumVersion |-> minimumVersion]

\* ------------------------------------------------------------------ URLs
\* A URL of the application's origin: path segments, query parameters in
\* order and fragment.  Each piece of text is a sequence of chunks, so that
\* "contains openExternalBrowser" and "is openExternalBrowser" differ.
Marker == "openExternalBrowser"

Url(path, search, hash) == [path |-> path, search |-> search, hash |-> hash]

Param(name, value) == [name |-> name, value |-> value]

TextIncludes(text, chunk) == \E i \in 1..Len(text) : text[i] = chunk

\* new URL(href).searchParams.has(name)
SearchParamsHas(search, name) == \E i \in 1..Len(search) : search[i].name = <<name>>

\* href.search(needle) >= 0: the needle occurs anywhere in the URL text
HrefSearchFinds(h, needle) ==
  \/ \E i \in 1..Len(h.path) : TextIncludes(h.path[i], needle)
  \/ \E i \in 1..Len(h.search) :
        TextIncludes(h.search[i].name, needle) \/ TextIncludes(h.search[i].value, needle)
  \/ TextIncludes(h.hash, needle)

RECURSIVE DropNamed(_, _)
DropNamed(search, name) ==
  IF search = <<>> THEN <<>>
  ELSE IF Head(search).name = <<name>> THEN DropNamed(Tail(search), name)
  ELSE <<Head(search)>> \o DropNamed(Tail(search), name)

\* URLSearchParams.set: overwrite the first parameter of that name and drop
\* the others, or append
SearchParamsSet(search, name, value) ==
  IF SearchParamsHas(search, name)
  THEN LET k == MinOf({i \in 1..Len(search) : search[i].name = <<name>>})
       IN  SubSeq(search, 1, k - 1) \o <<Param(<<name>>, value)>>
             \o DropNamed(SubSeq(search, k + 1, Len(search)), name)
  ELSE Append(search, Param(<<name>>, value))

ErrorPath == <<<<"browser-error">>>>

NoHash == <<>>

showIncompatibleBrowserError(h) == Url(ErrorPath, h.search, NoHash)

showIncompatibleBrowserVersionError_noSearch(h) == Url(ErrorPath, <<>>, NoHash)

showIncompatibleBrowserVersionError(h) == Url(ErrorPath, h.search, NoHash)

\* --------------------------------------------------------------- the pass
\* What one pass does, in order: "info" is the call of
\* getBrowserCompatibilityInfo, "replace" is location.replace(url) and
\* "assign" is location.href = url.
NoUrl == Url(<<>>, <<>>, NoHash)

Ev(op, url) == [op |-> op, url |-> url]

NoInfo == [name |-> NoBrowser, version |-> Undefined,
           isSupported |-> FALSE, minimumVersion |-> Undefined]

ErrorRedirect(h, info) ==
  IF ~info.isSupported
  THEN IF info.minimumVersion = Null
       THEN <<Ev("assign", showIncompatibleBrowserError(h))>>
       ELSE <<Ev("assign", showIncompatibleBrowserVersionError(h))>>
  ELSE <<>>

Handoff(h) == <<Ev("replace", Url(h.path, SearchParamsSet(h.search, Marker, <<"1">>), h.hash))>>

checkBrowserCompatibility_noGuard(h, ua, uad, cfg) ==
  IF ~cfg.enabled THEN [trace |-> <<>>, info |-> NoInfo]
  ELSE LET info == getBrowserCompatibilityInfo(ua, uad, cfg)
       IN  IF info.name = LINE /\ ~HrefSearchFinds(h, Marker)
           THEN [trace |-> <<Ev("info", NoUrl)>> \o Handoff(h), info |-> info]
           ELSE [trace |-> <<Ev("info", NoUrl)>> \o ErrorRedirect(h, info), info |-> info]

checkBrowserCompatibility_noReturn(h, ua, uad, cfg) ==
  IF SearchParamsHas(h.search, Marker) THEN [trace |-> <<>>, info |-> NoInfo]
  ELSE IF ~cfg.enabled THEN [trace |-> <<>>, info |-> NoInfo]
  ELSE LET info == getBrowserCompatibilityInfo(ua, uad, cfg)
       IN  IF info.name = LINE /\ ~HrefSearchFinds(h, Marker)
           THEN [trace |-> <<Ev("info", NoUrl)>> \o Handoff(h) \o ErrorRedirect(h, info),
                 info |-> info]
           ELSE [trace |-> <<Ev("info", NoUrl)>> \o ErrorRedirect(h, info), info |-> info]

checkBrowserCompatibility(h, ua, uad, cfg) ==
  IF SearchParamsHas(h.search, Marker) THEN [trace |-> <<>>, info |-> NoInfo]
  ELSE IF ~cfg.enabled THEN [trace |-> <<>>, info |-> NoInfo]
  ELSE LET info == getBrowserCompatibilityInfo(ua, uad, cfg)
       IN  IF info.name = LINE /\ ~HrefSearchFinds(h, Marker)
           THEN \* location.replace(targetUrl); return
                [trace |-> <<Ev("info", NoUrl)>> \o Handoff(h), info |-> info]
           ELSE [trace |-> <<Ev("info", NoUrl)>> \o ErrorRedirect(h, info), info |-> info]

\* the navigation requests of a pass, in order
Navs(t) == SelectSeq(t, LAMBDA e : e.op \in {"replace", "assign"})

\* ---------------------------------------------------------------- inputs
V120 == <<"1", "2", "0", ".", "0", ".", "0", ".", "0">>
V85 == <<"8", "5", ".", "0", ".", "4", "1", "8", "3", ".", "1", "2", "1">>
VWebKit == <<"5", "3", "7", ".", "3", "6">>

UaChrome120 == <<Tok("Mozilla", <<"5", ".", "0">>), Tok("Chrome", V120), Tok("Safari", VWebKit)>>
UaChrome85 == <<Tok("Mozilla", <<"5", ".", "0">>), Tok("Chrome", V85), Tok("Safari", VWebKit)>>
UaLineAndroid == <<Tok("Chrome", V120), Tok("Mobile", <<>>), Tok("Safari", VWebKit),
                   Tok("Line", <<"1", "2", ".", "5", ".", "0">>)>>
UaLineIos == <<Tok("Mobile", <<"1", "5", "E", "1", "4", "8">>), Tok("Safari", <<>>),
               Tok("Line", <<"1", "3", ".", "1", ".", "0">>)>>
UaSafari == <<Tok("Version", <<"1", "7", ".", "1">>), Tok("Safari", <<"6", "0", "5", ".", "1", ".", "1", "5">>)>>
UaSafariOld == <<Tok("Version", <<"1", "3", ".", "1">>), Tok("Safari", <<"6", "0", "5", ".", "1", ".", "1", "5">>)>>
UaFirefox == <<Tok("Gecko", <<"2", "0", "1", "0", "0", "1", "0", "1">>), Tok("Firefox", <<"1", "2", "1", ".", "0">>)>>
UaEdge == <<Tok("Chrome", V120), Tok("Safari", VWebKit), Tok("Edg", <<"1", "2", "0", ".", "0", ".", "2", "2", "1", "0">>)>>
UaEdgeAndroid == <<Tok("Chrome", V120), Tok("Mobile", <<>>), Tok("Safari", VWebKit), Tok("EdgA", V120)>>
UaOpera == <<Tok("Chrome", V120), Tok("Safari", VWebKit), Tok("OPR", <<"1", "0", "6", ".", "0", ".", "0", ".", "0">>)>>
UaSamsung == <<Tok("SamsungBrowser", <<"2", "3", ".", "0">>), Tok("Chrome", V120), Tok("Safari", VWebKit)>>
UaCurl == <<Tok("curl", <<"8", ".", "4", ".", "0">>)>>

UserAgents == {UaChrome120, UaChrome85, UaLineAndroid, UaLineIos, UaSafari, UaSafariOld,
               UaFirefox, UaEdge, UaEdgeAndroid, UaOpera, UaSamsung, UaCurl}

Brand(words, version) == [brand |-> words, version |-> version]

BrandNames == {<<"Microsoft", "Edge">>, <<"Samsung", "Internet">>, <<"Google", "Chrome">>,
               <<"Chromium">>, <<"Firefox">>, <<"Brave">>, <<"Not", "A", "Brand">>}

\* a full-version string, a major-only string, and a number in place of a
\* string (userAgentData is read through `any`)
BrandVersions == {Str(V120), Str(<<"8", "5">>), Num(<<"1", "2", "0">>)}

BrandEntries == {Brand(n, v) : n \in BrandNames, v \in BrandVersions}

BrandLists == UNION {[1..n -> BrandEntries] : n \in 0..MaxBrands}

\* the hints met by the navigation policy
PolicyHints == {NoHints,
                Hints(<<>>),
                Hints(<<Brand(<<"Not", "A", "Brand">>, Str(<<"8">>)), Brand(<<"Chromium">>, Str(V120)),
                        Brand(<<"Google", "Chrome">>, Str(V120))>>),
                Hints(<<Brand(<<"Google", "Chrome">>, Num(<<"1", "2", "0">>))>>),
                Hints(<<Brand(<<"Brave">>, Str(V120)), Brand(<<"Chromium">>, Str(V120))>>),
                Hints(<<Brand(<<"Samsung", "Internet">>, Str(<<"1", "3", ".", "2">>))>>)}

Uniform(c) == [chrome |-> Str(c), firefox |-> Str(c), safari |-> Str(c),
               edge |-> Str(c), samsung |-> Str(c)]

\* environment.browserCompatibility.supportedVersions
DefaultVersions == [chrome |-> Str(<<">", "=", "9", "0", ".", "0", ".", "0">>),
                    firefox |-> Str(<<">", "=", "8", "8", ".", "0", ".", "0">>),
                    safari |-> Str(<<">", "=", "1", "4", ".", "0", ".", "0">>),
                    edge |-> Str(<<">", "=", "9", "0", ".", "0", ".", "0">>),
                    samsung |-> Str(<<">", "=", "1", "4", ".", "0", ".", "0">>)]

ConstraintTexts == {<<"^", "1", "2", "0", ".", "0", ".", "1">>,
                    <<"~", " ", "1", "2", "0", ".", "0">>,
                    <<" ", "1", "2", "1", ".", "0", "~">>,
                    <<"v", "2", "3">>,
                    <<>>}

SupportedVersionTables == {DefaultVersions} \cup {Uniform(c) : c \in ConstraintTexts}

Configs == {[enabled |-> TRUE, supportedVersions |-> t] : t \in SupportedVersionTables}
             \cup {[enabled |-> FALSE, supportedVersions |-> DefaultVersions]}

DefaultConfig == [enabled |-> TRUE, supportedVersions |-> DefaultVersions]

ParamNames == {<<Marker>>, <<Marker, "Url">>, <<"ref">>}

ParamValues == {<<"1">>, <<"from", Marker>>}

Params == {Param(n, v) : n \in ParamNames, v \in ParamValues}

Searches == UNION {[1..n -> Params] : n \in 0..MaxParams}

Hashes == {NoHash, <<Marker>>}

StartUrls == {Url(<<>>, q, f) : q \in Searches, f \in Hashes}

\* ---------------------------------------------------------- state machine
NoCmp == [current |-> <<>>, minimum |-> <<>>, operator |-> ">="]

TypeOK ==
  /\ pc \in {"load", "checked", "compare", "compared"}
  /\ loads \in 0..MaxLoads
  /\ prevNav \in {"none", "replace", "assign"}
  /\ cmpOut \in {"none", "true", "false"}
  /\ config.enabled \in BOOLEAN

\* the navigation policy over the whole environment
Init ==
  /\ href \in StartUrls
  /\ userAgent \in UserAgents
  /\ userAgentData \in PolicyHints
  /\ config \in Configs
  /\ pc = "load"
  /\ trace = <<>>
  /\ browserInfo = NoInfo
  /\ loads = 1
  /\ prevNav = "none"
  /\ cmpIn = NoCmp
  /\ cmpOut = "none"

\* page load: the module constructs the service, whose constructor runs
\* checkBrowserCompatibility
Construct ==
  /\ pc = "load"
  /\ LET r == checkBrowserCompatibility(href, userAgent, userAgentData, config)
     IN  /\ trace' = r.trace
         /\ browserInfo' = r.info
  /\ pc' = "checked"
  /\ UNCHANGED <<href, userAgent, userAgentData, config, loads, prevNav, cmpIn, cmpOut>>

\* the host performs the navigation the pass requested and loads the page
\* anew with the same signals and configuration
Navigate ==
  /\ pc = "checked"
  /\ Navs(trace) # <<>>
  /\ loads < MaxLoads
  /\ LET nav == Navs(trace)[Len(Navs(trace))]
     IN  /\ href' = nav.url
         /\ prevNav' = nav.op
  /\ pc' = "load"
  /\ loads' = loads + 1
  /\ trace' = <<>>
  /\ browserInfo' = NoInfo
  /\ UNCHANGED <<userAgent, userAgentData, config, cmpIn, cmpOut>>

Next == Construct \/ Navigate

Spec == Init /\ [][Next]_vars

\* identity extraction over every brand list, default configuration
InitHints ==
  /\ href = Url(<<>>, <<>>, NoHash)
  /\ userAgent \in {UaChrome120, UaLineAndroid, UaFirefox, UaCurl}
  /\ userAgentData \in {Hints(l) : l \in BrandLists}
  /\ config = DefaultConfig
  /\ pc = "load"
  /\ trace = <<>>
  /\ browserInfo = NoInfo
  /\ loads = 1
  /\ prevNav = "none"
  /\ cmpIn = NoCmp
  /\ cmpOut = "none"

SpecHints == InitHints /\ [][Next]_vars

\* compareVersions over every pair of version arrays and every operator
VersionArrays == UNION {[1..n -> 0..MaxComp] : n \in 0..MaxVerLen}

Operators == {">=", "^", "~", "="}

InitCmp ==
  /\ href = Url(<<>>, <<>>, NoHash)
  /\ userAgent = UaCurl
  /\ userAgentData = NoHints
  /\ config = DefaultConfig
  /\ pc = "compare"
  /\ trace = <<>>
  /\ browserInfo = NoInfo
  /\ loads = 1
  /\ prevNav = "none"
  /\ cmpIn \in [current : VersionArrays, minimum : VersionArrays, operator : Operators]
  /\ cmpOut = "none"

Compare ==
  /\ pc = "compare"
  /\ cmpOut' = IF compareVersions(cmpIn.current, cmpIn.minimum, cmpIn.operator)
               THEN "true" ELSE "false"
  /\ pc' = "compared"
  /\ UNCHANGED <<href, userAgent, userAgentData, config, trace, browserInfo, loads, prevNav, cmpIn>>

NextCmp == Compare

SpecCmp == InitCmp /\ [][NextCmp]_vars

\* ------------------------------------------------------------ properties
Checked == pc = "checked"

\* the pass got as far as computing the verdict
InfoComputed == Checked /\ browserInfo.name # NoBrowser

IsNav(e) == e.op \in {"replace", "assign"}

\* C1: a pass on a URL whose query has the parameter openExternalBrowser
\* (any value), or under a configuration with enabled = false, issues no
\* navigation.
C1_GuardSuppressesNavigation ==
  (Checked /\ (SearchParamsHas(href.search, Marker) \/ ~config.enabled))
    => Navs(trace) = <<>>

\* a LINE client, gate enabled, on a URL that carries the parameter
C1_Witness ==
  /\ Checked
  /\ config.enabled
  /\ SearchParamsHas(href.search, Marker)
  /\ parseUserAgent(userAgent, userAgentData).name = LINE
  /\ trace = <<>>

\* C2: gate enabled, no openExternalBrowser parameter in the query and the
\* detected kind LINE: the pass issues exactly a replace to the current URL
\* with openExternalBrowser=1 added, and no redirect to /browser-error.
C2_LineHandoff ==
  (InfoComputed /\ config.enabled /\ ~SearchParamsHas(href.search, Marker)
     /\ browserInfo.name = LINE)
    => Navs(trace) = <<Ev("replace", Url(href.path,
                                         Append(href.search, Param(<<Marker>>, <<"1">>)),
                                         href.hash))>>

\* the verdict of the pass is unsupported: no configured minimum for the
\* kind, or the version fails the constraint
VerdictUnsupported ==
  \/ ~NotNullish(browserInfo.minimumVersion)
  \/ ~isVersionSupported(browserInfo.version, browserInfo.minimumVersion)

\* C3: for a kind other than LINE (gate enabled, parameter absent) the pass
\* assigns location.href to /browser-error with exactly the current query
\* string if the verdict is unsupported, and issues nothing otherwise.
C3_ErrorRedirect ==
  (InfoComputed /\ config.enabled /\ ~SearchParamsHas(href.search, Marker)
     /\ browserInfo.name # LINE)
    => IF VerdictUnsupported
       THEN Navs(trace) = <<Ev("assign", Url(ErrorPath, href.search, NoHash))>>
       ELSE Navs(trace) = <<>>

\* an outdated supported browser on a URL with a query string is redirected
C3_Witness ==
  /\ InfoComputed
  /\ browserInfo.name = CHROME
  /\ browserInfo.minimumVersion # Null
  /\ ~browserInfo.isSupported
  /\ href.search # <<>>
  /\ Len(Navs(trace)) = 1
  /\ Navs(trace)[1].op = "assign"

\* C4: a pass writes the navigation target at most once, and the write is
\* the last thing the pass does (nothing is detected or evaluated after it).
C4_AtMostOneNavigation ==
  /\ Len(Navs(trace)) <= 1
  /\ \A i \in 1..Len(trace) : IsNav(trace[i]) => i = Len(trace)

\* a LINE handoff: detection, then one replace
C4_Witness ==
  /\ Checked
  /\ browserInfo.name = LINE
  /\ Len(trace) = 2
  /\ trace[1].op = "info"
  /\ trace[2].op = "replace"

\* a < b in lexicographic order, a and b of equal length
LexLess(a, b) ==
  \E i \in 1..Len(a) : a[i] < b[i] /\ \A j \in 1..(i - 1) : a[j] = b[j]

LexGeq(a, b) == ~LexLess(a, b)

\* the first three components, a missing one being 0
Triple(a) == [i \in 1..3 |-> IF i <= Len(a) THEN a[i] ELSE 0]

\* the specified meaning of the three operators on version triples
Satisfies(cur, min, operator) ==
  CASE operator = ">=" -> LexGeq(cur, min)
    [] operator = "^" ->
         (cur[1] > min[1]) \/ (cur[1] = min[1] /\ LexGeq(<<cur[2], cur[3]>>, <<min[2], min[3]>>))
    [] operator = "~" ->
         IF cur[1] = min[1] /\ cur[2] = min[2]
         THEN cur[3] >= min[3]
         ELSE LexLess(<<min[1], min[2]>>, <<cur[1], cur[2]>>)

\* C5: compareVersions returns what the definition of at-least, caret and
\* tilde prescribes, for every pair of versions.
C5_CompareVersions ==
  (pc = "compared" /\ cmpIn.operator \in {">=", "^", "~"})
    => (cmpOut = "true"
          <=> Satisfies(Triple(cmpIn.current), Triple(cmpIn.minimum), cmpIn.operator))

\* tilde with a greater minor and a smaller patch: satisfied
C5_Witness ==
  /\ pc = "compared"
  /\ cmpIn.operator = "~"
  /\ cmpIn.current = <<1, 2, 0>>
  /\ cmpIn.minimum = <<1, 1, 2>>
  /\ cmpOut = "true"

\* C6: when the comparison inside isVersionSupported throws for a kind with
\* a configured constraint, the verdict is supported and the pass issues no
\* error redirect.
C6_FailOpen ==
  (InfoComputed /\ NotNullish(browserInfo.minimumVersion)
     /\ versionComparisonThrows(browserInfo.version, browserInfo.minimumVersion))
    => /\ browserInfo.isSupported
       /\ Navs(trace) = <<>>

\* a brand version that is not a string makes cleanVersion throw
C6_Witness ==
  /\ InfoComputed
  /\ browserInfo.name = CHROME
  /\ browserInfo.version.type = "number"
  /\ versionComparisonThrows(browserInfo.version, browserInfo.minimumVersion)
  /\ browserInfo.isSupported

LowerName(b) == ToLowerCase(b.brand)

EdgeLike(b) == BrandIncludes(LowerName(b), <<"edge">>)

SamsungLike(b) == BrandIncludes(LowerName(b), <<"samsung">>)

ChromeLike(b) ==
  BrandIncludes(LowerName(b), <<"chrome">>) /\ ~BrandIncludes(LowerName(b), <<"chromium">>)

FirefoxLike(b) == BrandIncludes(LowerName(b), <<"firefox">>)

ChromiumLike(b) == BrandIncludes(LowerName(b), <<"chromium">>)

SomeBrand(P(_)) == \E i \in 1..Len(userAgentData.brands) : P(userAgentData.brands[i])

OnlyGenericChromium ==
  /\ userAgentData.present
  /\ ~SomeBrand(EdgeLike) /\ ~SomeBrand(SamsungLike)
  /\ ~SomeBrand(ChromeLike) /\ ~SomeBrand(FirefoxLike)
  /\ SomeBrand(ChromiumLike)

\* C7: a brand list with a chromium brand and no Edge-, Samsung-, Chrome-
\* or Firefox-like brand gives kind UNKNOWN with the chromium entry's
\* version, whatever the user agent says.
C7_GenericChromiumIsUnknown ==
  (InfoComputed /\ OnlyGenericChromium)
    => /\ browserInfo.name = UNKNOWN
       /\ \E i \in 1..Len(userAgentData.brands) :
            /\ ChromiumLike(userAgentData.brands[i])
            /\ \A j \in 1..(i - 1) : ~ChromiumLike(userAgentData.brands[j])
            /\ browserInfo.version = userAgentData.brands[i].version

\* Brave's brand list with a Chrome user agent
C7_Witness ==
  /\ InfoComputed
  /\ OnlyGenericChromium
  /\ detectBrowser(userAgent).name = CHROME
  /\ browserInfo.name = UNKNOWN
  /\ browserInfo.version = Str(V120)

ConfiguredKinds == {"chrome", "firefox", "safari", "edge", "samsung"}

ConfigCoversFiveKinds ==
  /\ DOMAIN config.supportedVersions = ConfiguredKinds
  /\ \A k \in ConfiguredKinds : IsString(config.supportedVersions[k])

\* C8: under a configuration covering exactly the five kinds, the verdict's
\* minimumVersion is null exactly for LINE and UNKNOWN, and a null
\* minimumVersion comes with isSupported = false.
C8_MinimumVersionNull ==
  (InfoComputed /\ ConfigCoversFiveKinds)
    => /\ (browserInfo.minimumVersion = Null <=> browserInfo.name \in {LINE, UNKNOWN})
       /\ (browserInfo.minimumVersion = Null => ~browserInfo.isSupported)

\* an unrecognised browser: no minimum, unsupported
C8_Witness ==
  /\ InfoComputed
  /\ browserInfo.name = UNKNOWN
  /\ browserInfo.minimumVersion = Null
  /\ ~browserInfo.isSupported

\* C9: whatever the order of the brand list, Edge-like wins over
\* Samsung-like, over Chrome-like, over Firefox-like.
C9_BrandPriority ==
  (InfoComputed /\ userAgentData.present)
    => IF SomeBrand(EdgeLike) THEN browserInfo.name = EDGE
       ELSE IF SomeBrand(SamsungLike) THEN browserInfo.name = SAMSUNG
       ELSE IF SomeBrand(ChromeLike) THEN browserInfo.name = CHROME
       ELSE IF SomeBrand(FirefoxLike) THEN browserInfo.name = FIREFOX
       ELSE TRUE

\* C10: the pass that runs on the URL a previous pass navigated to (error
\* redirect or LINE handoff) issues no further navigation, so every chain
\* of navigations ends.
C10_ChainEnds ==
  (Checked /\ prevNav \in {"assign", "replace"}) => Navs(trace) = <<>>

====
